---------------------------- MODULE Spec2Model ----------------------------
(***************************************************************************)
(* Model of the cancities HTTP server: the request handlers of package     *)
(* server (status, import, find, route not found), the dgraph client of    *)
(* package dgclient (GetCity, GetCitiesAround, AddNewNodeToBatch,          *)
(* BatchFlush, DecodeGeoDatas) and the bounding box computation.           *)
(*                                                                         *)
(* Numbers.  Go's float64 angles are modelled in fixed point: degrees in   *)
(* units of 1/100 degree, radians in units of 1/10000 radian.  Strings     *)
(* that the code parses (the id of the path, the values of the query       *)
(* string) are sequences of one-character strings.  uint64 is modelled     *)
(* with the reduced maximum UintMax.                                       *)
(***************************************************************************)
EXTENDS Integers, Sequences, FiniteSets, TLC

(***************************************************************************)
(* Bounds of the model.                                                    *)
(***************************************************************************)
\* largest value of the modelled uint64 (stands for 1<<64 - 1)
UintMax == 2047
\* largest number of parameters in a query string
MaxParams == 2
\* largest number of entities in a reply of the store to a polygon query
MaxReply == 3
\* largest number of nodes the store ever allocates
MaxNodes == 5
\* the same, for the imports of several features
MaxImportNodes == 6
\* the connections served at the same time
MaxConns == 2

(***************************************************************************)
(* Generic helpers.                                                        *)
(***************************************************************************)
Abs(n) == IF n < 0 THEN -n ELSE n

\* n / d rounded to the nearest integer, d > 0 (float64 rounds to nearest)
RoundDiv(n, d) == IF n >= 0 THEN (n + d \div 2) \div d
                            ELSE -((-n + d \div 2) \div d)

Max(a, b) == IF a >= b THEN a ELSE b
Min(a, b) == IF a <= b THEN a ELSE b

Range(s) == {s[i] : i \in 1..Len(s)}

SeqsUpTo(S, n) == UNION {[1..k -> S] : k \in 0..n}

(***************************************************************************)
(* src/boundingBox.go                                                      *)
(***************************************************************************)
\* one radian and one degree in model units
RadScale == 10 * 1000
DegScale == 10 * 10

\* math.Pi in units of 1/RadScale radian
Pi == 31416

\* radians(deg): deg * math.Pi / 180
radians(deg) == RoundDiv(deg * Pi, 180 * DegScale)

\* degrees(rad): rad * 180 / math.Pi
degrees(rad) == RoundDiv(rad * 180 * DegScale, Pi)

\* EARTH_RADIUS = 6371.01, in units of 1/100 km
EARTH_RADIUS == 637101
MIN_LAT == radians(-90 * DegScale)
MAX_LAT == radians(90 * DegScale)
MIN_LON == radians(-180 * DegScale)
MAX_LON == radians(180 * DegScale)

\* math.Sin on [0, Pi/2], by its Taylor series in Horner form
\*   x (1 - x^2/6 (1 - x^2/20 (1 - x^2/42 (1 - x^2/72))))
Sin(x) ==
    LET y  == RoundDiv(x * x, RadScale)
        u4 == RadScale - RoundDiv(y, 72)
        u3 == RadScale - RoundDiv(y * u4, 42 * RadScale)
        u2 == RadScale - RoundDiv(y * u3, 20 * RadScale)
        u1 == RadScale - RoundDiv(y * u2, 6 * RadScale)
    IN  RoundDiv(x * u1, RadScale)

\* math.Cos on [-Pi/2, Pi/2]
Cos(x) == Sin(MAX_LAT - Abs(x))

\* math.Asin on [0, 1]: the largest angle of [lo, hi] whose sine is at most z
RECURSIVE AsinIn(_, _, _)
AsinIn(z, lo, hi) ==
    IF lo >= hi THEN lo
    ELSE LET mid == (lo + hi + 1) \div 2
         IN  IF Sin(mid) <= z THEN AsinIn(z, mid, hi)
                              ELSE AsinIn(z, lo, mid - 1)

Asin(z) == AsinIn(Min(z, RadScale), 0, MAX_LAT)

\* delta_lon := math.Asin(math.Sin(angular_distance) / math.Cos(lat_rad))
deltaLon(angular_distance, lat_rad) ==
    Asin(RoundDiv(Sin(angular_distance) * RadScale, Cos(lat_rad)))

\* min_lon without the correction at the antimeridian
wrapMinLonNone(min_lon) == min_lon

\* min_lon = lon_rad - delta_lon; if min_lon < MIN_LON { min_lon += 2 * math.Pi }
wrapMinLon(min_lon) == IF min_lon < MIN_LON THEN min_lon + 2 * Pi ELSE min_lon

\* max_lon = lon_rad + delta_lon; if max_lon > MAX_LON { max_lon -= 2 * math.Pi }
wrapMaxLon(max_lon) == IF max_lon > MAX_LON THEN max_lon - 2 * Pi ELSE max_lon

\* the branch min_lat > MIN_LAT && max_lat < MAX_LAT, and the return
boxInside(lon_rad, min_lat, max_lat, delta_lon) ==
    <<degrees(min_lat), degrees(wrapMinLon(lon_rad - delta_lon)),
      degrees(max_lat), degrees(wrapMaxLon(lon_rad + delta_lon))>>

\* the else branch without math.Max and math.Min on the latitudes
boxPoleNoClamp(min_lat, max_lat) ==
    <<degrees(min_lat), degrees(MIN_LON), degrees(max_lat), degrees(MAX_LON)>>

\* the else branch that leaves min_lon and max_lon at their zero value
boxPoleNoLon(min_lat, max_lat) ==
    <<degrees(Max(min_lat, MIN_LAT)), degrees(0),
      degrees(Min(max_lat, MAX_LAT)), degrees(0)>>

\* the else branch, and the return
boxPole(min_lat, max_lat) ==
    <<degrees(Max(min_lat, MIN_LAT)), degrees(MIN_LON),
      degrees(Min(max_lat, MAX_LAT)), degrees(MAX_LON)>>

\* the body of getBoundingBox with the distance taken as the side of the box
boxRadSide(lon_rad, lat_rad, angular_distance) ==
    IF lat_rad - angular_distance \div 2 > MIN_LAT
       /\ lat_rad + angular_distance \div 2 < MAX_LAT
    THEN boxInside(lon_rad, lat_rad - angular_distance \div 2,
                   lat_rad + angular_distance \div 2,
                   deltaLon(angular_distance \div 2, lat_rad))
    ELSE boxPole(lat_rad - angular_distance \div 2,
                 lat_rad + angular_distance \div 2)

\* the body of getBoundingBox on lon_rad, lat_rad and angular_distance
boxRad(lon_rad, lat_rad, angular_distance) ==
    IF lat_rad - angular_distance > MIN_LAT /\ lat_rad + angular_distance < MAX_LAT
    THEN boxInside(lon_rad, lat_rad - angular_distance, lat_rad + angular_distance,
                   deltaLon(angular_distance, lat_rad))
    ELSE boxPole(lat_rad - angular_distance, lat_rad + angular_distance)

\* getBoundingBox(lon, lat, dist): lon, lat in 1/100 degree, dist in km.
\* Returns <<min_lat_deg, min_lon_deg, max_lat_deg, max_lon_deg>>.
getBoundingBox(lon, lat, dist) ==
    boxRad(radians(lon), radians(lat), RoundDiv(dist * 100 * RadScale, EARTH_RADIUS))

(***************************************************************************)
(* Strings that the code parses; strconv.ParseUint.                        *)
(***************************************************************************)
Digits == <<"0", "1", "2", "3", "4", "5", "6", "7", "8", "9">>

IsDigit(c) == \E i \in 1..10 : Digits[i] = c

DigitVal(c) == (CHOOSE i \in 1..10 : Digits[i] = c) - 1

\* the digits of s read in base 10 after acc; -1 on a character that is no
\* digit (strconv.ErrSyntax) and on a value above the maximum (ErrRange)
RECURSIVE ParseDigits(_, _)
ParseDigits(s, acc) ==
    IF s = <<>> THEN acc
    ELSE IF ~IsDigit(Head(s)) THEN -1
    ELSE LET n == acc * 10 + DigitVal(Head(s))
         IN  IF n > UintMax THEN -1 ELSE ParseDigits(Tail(s), n)

\* the result of ParseUint from the value n of the digits
uintResult(n) == IF n < 0 THEN [err |-> TRUE, u |-> 0] ELSE [err |-> FALSE, u |-> n]

\* strconv.ParseUint(s, 10, 64): the empty string is a syntax error
ParseUint(s) == IF s = <<>> THEN uintResult(-1) ELSE uintResult(ParseDigits(s, 0))

(***************************************************************************)
(* The JSON templates of the replies and the error formats.  A message     *)
(* built by fmt.Sprintf(format, args...) is the pair of format and args.   *)
(***************************************************************************)
Sprintf(format, args) == [fmt |-> format, args |-> args]

NilTempl == [type |-> "nil"]
ErrorRep(msg) == [type |-> "ErrorRep", error |-> msg]
StatusRep(msg) == [type |-> "StatusRep", message |-> msg]
CityTempl(id, name, population, coordinates) ==
    [type |-> "CityTempl", cartodb_id |-> id, name |-> name,
     population |-> population, coordinates |-> coordinates]
CitiesTempl(cities) == [type |-> "CitiesTempl", cities |-> cities]

\* net/http status codes used by the handlers
StatusOK == 200
StatusCreated == 201
StatusBadRequest == 400
StatusNotFound == 404
StatusUnprocessableEntity == 422
StatusInternalServerError == 500

JsonContentType == "application/json; charset=UTF-8"

(***************************************************************************)
(* The store: dgraph nodes by uid.  A node holds the predicates set on it; *)
(* a predicate that is not set reads as Go's zero value.  geo is the       *)
(* binary (WKB) geometry <<byte order, geometry type, x, y, ...>>: one     *)
(* pair for a point, the pairs of the ring for a polygon.                  *)
(***************************************************************************)
WkbNDR == 1
WkbPoint == 1
WkbPolygon == 3

\* the edges AddNewNodeToBatch adds, in order
EdgeNames == <<"cartodb_id", "name", "place_key", "capital", "population",
               "pclass", "created_at", "updated_at", "geo">>

EmptyNode == [preds |-> {}, cartodb_id |-> 0, name |-> "", population |-> 0,
              geo |-> <<>>]

\* SetValueGeoJson of a geometry: the stored binary form of a GeoJSON point
EncodeGeoJson(geometry) ==
    <<WkbNDR, WkbPoint, geometry.coordinates[1], geometry.coordinates[2]>>

\* the geom.T of a geometry whose type wkb.Unmarshal knows: a point needs
\* its pair, the ring of a polygon whole pairs
decodeTyped(geo) ==
    IF geo[2] = WkbPoint
    THEN IF Len(geo) < 4 THEN [err |-> TRUE, flat |-> <<>>]
         ELSE [err |-> FALSE, flat |-> <<geo[3], geo[4]>>]
    ELSE IF (Len(geo) - 2) % 2 # 0 THEN [err |-> TRUE, flat |-> <<>>]
         ELSE [err |-> FALSE, flat |-> SubSeq(geo, 3, Len(geo))]

\* DecodeGeoDatas(geo): wkb.Unmarshal fails on an unknown byte order, on an
\* unknown geometry type and on data that ends early, and returns the
\* geom.T of any geometry type it knows; flat is geo.FlatCoords().
DecodeGeoDatas(geo) ==
    IF Len(geo) < 2 \/ geo[1] \notin {0, 1} \/ geo[2] \notin {WkbPoint, WkbPolygon}
    THEN [err |-> TRUE, flat |-> <<>>]
    ELSE decodeTyped(geo)

\* CityProps of a node, as client.Unmarshal fills it
CityProps(node) ==
    [Name |-> node.name, Population |-> node.population,
     Cartodb_id |-> node.cartodb_id, Geo |-> node.geo]

(***************************************************************************)
(* package dgclient: the queries.  A run is what dgraph answers to one     *)
(* request: an error, or the children of the reply's root.                 *)
(***************************************************************************)
\* sendRequest: an error of dg.Run or of client.Unmarshal is returned; a
\* reply without children leaves rep untouched
sendRequest(run) ==
    IF run.err THEN [err |-> TRUE, children |-> <<>>]
    ELSE [err |-> FALSE,
          children |-> [i \in 1..Len(run.children) |-> CityProps(run.children[i])]]

\* the CityRep of a reply: Root is a pointer, here a sequence of at most one
cityRep(rep) ==
    [err |-> rep.err,
     Root |-> IF rep.children = <<>> THEN <<>> ELSE <<rep.children[1]>>]

\* GetCity(id)
GetCity(id, run) == cityRep(sendRequest(run))

\* bndBox with each pair as (lat, lon)
bndBoxLatLon(minLat, minLong, maxLat, maxLong) ==
    << << <<minLat, minLong>>,
          <<minLat, maxLong>>,
          <<maxLat, maxLong>>,
          <<maxLat, minLong>>,
          <<minLat, minLong>> >> >>

\* bndBox as the four corners, without the pair that closes the ring
bndBoxOpen(minLat, minLong, maxLat, maxLong) ==
    << << <<minLong, minLat>>,
          <<maxLong, minLat>>,
          <<maxLong, maxLat>>,
          <<minLong, maxLat>> >> >>

\* bndBox: the closed ring of five (lon, lat) pairs, as one polygon
bndBoxOf(minLat, minLong, maxLat, maxLong) ==
    << << <<minLong, minLat>>,
          <<maxLong, minLat>>,
          <<maxLong, maxLat>>,
          <<minLong, maxLat>>,
          <<minLong, minLat>> >> >>

\* the CitiesRep of a reply to the request sent with $bndBox
citiesRep(bb, rep) ==
    [err |-> rep.err, Root |-> rep.children,
     bndBox |-> bndBoxOf(bb[1], bb[2], bb[3], bb[4])]

\* GetCitiesAround(pos, dist)
GetCitiesAround(pos, dist, run) ==
    citiesRep(getBoundingBox(pos[1], pos[2], dist), sendRequest(run))

(***************************************************************************)
(* package server: helpers.                                                *)
(***************************************************************************)
\* internalError(err): err goes to the console, the reply has no template
internalError(err) == [code |-> StatusInternalServerError, jsonTempl |-> NilTempl]

\* the result of getUIntQsParam from the result p of ParseUint(v[0])
uintQsResult(v, key, p) ==
    IF p.err
    THEN [err |-> TRUE, msg |-> Sprintf("ErrInvalidUIntQsParam", <<v[1], key>>),
          u |-> 0]
    ELSE [err |-> FALSE, msg |-> Sprintf("", <<>>), u |-> p.u]

\* getUIntQsParam that drops the error of ParseUint and returns its 0
getUIntQsParamNoErr(v, key) ==
    IF Len(v) # 1
    THEN [err |-> TRUE, msg |-> Sprintf("ErrTooManyValues", <<key>>), u |-> 0]
    ELSE [err |-> FALSE, msg |-> Sprintf("", <<>>), u |-> ParseUint(v[1]).u]

\* getUIntQsParam(v, key)
getUIntQsParam(v, key) ==
    IF Len(v) # 1
    THEN [err |-> TRUE, msg |-> Sprintf("ErrTooManyValues", <<key>>), u |-> 0]
    ELSE uintQsResult(v, key, ParseUint(v[1]))

\* r.ParseForm(): r.Form maps each key of the query string to its values,
\* in order.  The query string is a sequence of <<key, value>> pairs.
FormValues(query, key) ==
    LET sel == SelectSeq(query, LAMBDA p : p[1] = key)
    IN  [i \in 1..Len(sel) |-> sel[i][2]]

ParseForm(query) ==
    [k \in {query[i][1] : i \in 1..Len(query)} |-> FormValues(query, k)]

(***************************************************************************)
(* appHandler.ServeHTTP: what is written to the http.ResponseWriter.       *)
(* status 0 means WriteHeader was never called.                            *)
(***************************************************************************)
\* the handler fn(w, r) panicked: it returned no httpRetMsg (code -1 here)
Panic == [code |-> -1, jsonTempl |-> NilTempl]

\* the ResponseWriter of a handler that panicked: net/http recovers the
\* panic and closes the connection, the client is sent no status (-1 here)
ConnAborted == [header |-> "", status |-> -1, body |-> NilTempl]

\* ret.code after the check that the handler set it
codeOf(ret) == IF ret.code = 0 THEN StatusInternalServerError ELSE ret.code

\* ServeHTTP that leaves the Content-Type to net/http
ServeHTTPNoContentType(ret) ==
    [header |-> "", status |-> codeOf(ret), body |-> ret.jsonTempl]

\* ServeHTTP that writes the header only together with a body
ServeHTTPBodyOnly(ret) ==
    IF ret.jsonTempl.type # "nil"
    THEN [header |-> JsonContentType, status |-> codeOf(ret), body |-> ret.jsonTempl]
    ELSE [header |-> "", status |-> 0, body |-> NilTempl]

\* ServeHTTP after fn(w, r) returned ret
writeRet(ret) ==
    IF ret.jsonTempl.type # "nil"
    THEN [header |-> JsonContentType, status |-> codeOf(ret), body |-> ret.jsonTempl]
    ELSE [header |-> "", status |-> codeOf(ret), body |-> NilTempl]

ServeHTTP(ret) == IF ret = Panic THEN ConnAborted ELSE writeRet(ret)

\* the status code the client receives: net/http sends 200 when the handler
\* returns without a call of WriteHeader
ClientStatus(rw) == IF rw.status = 0 THEN StatusOK ELSE rw.status

(***************************************************************************)
(* findHandler.  A handler yields [ret, calls]: its httpRetMsg and the     *)
(* calls of the store it made.                                             *)
(***************************************************************************)
Reply(code, jsonTempl) ==
    [ret |-> [code |-> code, jsonTempl |-> jsonTempl], calls |-> <<>>]

Failed(ret) == [ret |-> ret, calls |-> <<>>]

\* the handler panicked
Panicked == [ret |-> Panic, calls |-> <<>>]

\* h after the call c
After(c, h) == [ret |-> h.ret, calls |-> <<c>> \o h.calls]

\* cityInfos with the coordinates as [lat, lon]
cityInfosLatLon(city, geo) ==
    CityTempl(city.Cartodb_id, city.Name, city.Population,
              <<geo.flat[2], geo.flat[1]>>)

\* cityInfos: the CityTempl of a CityProps whose geometry decoded to geo
cityInfosOf(city, geo) ==
    CityTempl(city.Cartodb_id, city.Name, city.Population, geo.flat)

\* citiesArr[i] of the loop over cities.Root, or the failure of its decoding
cityOrError(city, geo) ==
    IF geo.err THEN [err |-> TRUE, city |-> NilTempl]
    ELSE [err |-> FALSE, city |-> cityInfosOf(city, geo)]

\* the loop over cities.Root that fills citiesArr; the first geometry that
\* does not decode ends the request
RECURSIVE citiesLoop(_, _)
\* a loop step that leaves out an entity whose geometry does not decode
loopStepSkip(root, citiesArr, c) ==
    IF c.err THEN citiesLoop(Tail(root), citiesArr)
    ELSE citiesLoop(Tail(root), Append(citiesArr, c.city))

loopStep(root, citiesArr, c) ==
    IF c.err THEN [err |-> TRUE, citiesArr |-> <<>>]
    ELSE citiesLoop(Tail(root), Append(citiesArr, c.city))

citiesLoop(root, citiesArr) ==
    IF root = <<>> THEN [err |-> FALSE, citiesArr |-> citiesArr]
    ELSE loopStep(root, citiesArr,
                  cityOrError(Head(root), DecodeGeoDatas(Head(root).Geo)))

\* the reply of the proximity query from the result of the loop
citiesReply(loop) ==
    IF loop.err THEN Failed(internalError("DecodeGeoDatas"))
    ELSE Reply(StatusOK, CitiesTempl(loop.citiesArr))

\* s without the elements that occur earlier in it
RECURSIVE Distinct(_)
Distinct(s) ==
    IF s = <<>> THEN <<>>
    ELSE LET d == Distinct(SubSeq(s, 1, Len(s) - 1))
         IN  IF s[Len(s)] \in Range(d) THEN d ELSE Append(d, s[Len(s)])

\* findHandler that answers each city once
afterAroundDistinct(cities) ==
    IF cities.err THEN Failed(internalError("GetCitiesAround"))
    ELSE citiesReply(citiesLoop(Distinct(cities.Root), <<>>))

\* findHandler after GetCitiesAround returned cities
afterAround(cities) ==
    IF cities.err THEN Failed(internalError("GetCitiesAround"))
    ELSE citiesReply(citiesLoop(cities.Root, <<>>))

\* the record of the GetCitiesAround call and of its answer
aroundCall(pos, dist, run, cities) ==
    [op |-> "GetCitiesAround", pos |-> pos, dist |-> dist,
     bndBox |-> cities.bndBox, err |-> run.err, children |-> run.children]

aroundDone(pos, dist, run, cities) ==
    After(aroundCall(pos, dist, run, cities), afterAround(cities))

\* the proximity branch: dist u > 0.  GetCitiesAround reads pos[0] and
\* pos[1] before it sends its request: an index out of range panics
aroundBranch(geo, u, gaRun) ==
    IF Len(geo.flat) < 2 THEN Panicked
    ELSE aroundDone(geo.flat, u, gaRun, GetCitiesAround(geo.flat, u, gaRun))

\* the reply to dist = 0 as the single object
distZeroReplyObject(cityInfos) == Reply(StatusOK, cityInfos)

\* reply when dist is given and is 0
distZeroReply(cityInfos) == Reply(StatusOK, CitiesTempl(<<cityInfos>>))

\* findHandler that sends the proximity query for dist = 0 too
afterDistZeroAround(cityInfos, geo, p, gaRun) ==
    IF p.err THEN Reply(StatusBadRequest, ErrorRep(p.msg))
    ELSE aroundBranch(geo, p.u, gaRun)

\* findHandler after getUIntQsParam returned p
afterDist(cityInfos, geo, p, gaRun) ==
    IF p.err THEN Reply(StatusBadRequest, ErrorRep(p.msg))
    ELSE IF p.u = 0 THEN distZeroReply(cityInfos)
    ELSE aroundBranch(geo, p.u, gaRun)

\* findHandler after r.ParseForm()
distBranch(cityInfos, geo, form, gaRun) ==
    IF "dist" \notin DOMAIN form THEN Reply(StatusOK, cityInfos)
    ELSE afterDist(cityInfos, geo, getUIntQsParam(form["dist"], "dist"), gaRun)

\* findHandler after DecodeGeoDatas(city.Root.Geo) returned geo
afterDecode(r, root, geo, gaRun) ==
    IF geo.err THEN Failed(internalError("DecodeGeoDatas"))
    ELSE distBranch(cityInfosOf(root, geo), geo, ParseForm(r.query), gaRun)

\* findHandler that checks dist before it looks at the city
afterGetCityDistFirst(r, cityId, city, gaRun) ==
    IF city.err THEN Failed(internalError("GetCity"))
    ELSE IF "dist" \in DOMAIN ParseForm(r.query)
            /\ getUIntQsParam(ParseForm(r.query)["dist"], "dist").err
    THEN Reply(StatusBadRequest,
               ErrorRep(getUIntQsParam(ParseForm(r.query)["dist"], "dist").msg))
    ELSE IF city.Root = <<>>
    THEN Reply(StatusNotFound, ErrorRep(Sprintf("ErrNotFoundId", <<cityId>>)))
    ELSE afterDecode(r, city.Root[1], DecodeGeoDatas(city.Root[1].Geo), gaRun)

\* findHandler that asks dgraph a second time when GetCity failed
afterGetCityRetry(r, cityId, city, gaRun) ==
    IF city.err
    THEN After([op |-> "GetCity", id |-> cityId, err |-> TRUE, children |-> <<>>],
               Failed(internalError("GetCity")))
    ELSE IF city.Root = <<>>
    THEN Reply(StatusNotFound, ErrorRep(Sprintf("ErrNotFoundId", <<cityId>>)))
    ELSE afterDecode(r, city.Root[1], DecodeGeoDatas(city.Root[1].Geo), gaRun)

\* findHandler after GetCity returned city
afterGetCity(r, cityId, city, gaRun) ==
    IF city.err THEN Failed(internalError("GetCity"))
    ELSE IF city.Root = <<>>
    THEN Reply(StatusNotFound, ErrorRep(Sprintf("ErrNotFoundId", <<cityId>>)))
    ELSE afterDecode(r, city.Root[1], DecodeGeoDatas(city.Root[1].Geo), gaRun)

\* findHandler: r is the request, gcRun and gaRun what dgraph answers to the
\* GetCity and to the GetCitiesAround request if they are sent
findHandler(r, gcRun, gaRun) ==
    After([op |-> "GetCity", id |-> r.path.id, err |-> gcRun.err,
           children |-> gcRun.children],
          afterGetCity(r, r.path.id, GetCity(r.path.id, gcRun), gaRun))

(***************************************************************************)
(* notFoundHandler, statusHandler.                                         *)
(***************************************************************************)
notFoundHandler(r) ==
    Reply(StatusNotFound, ErrorRep(Sprintf("ErrRouteNotFound", <<r.method, r.path>>)))

statusHandler(r) == Reply(StatusOK, StatusRep("Server running on port 8443"))

(***************************************************************************)
(* The import: AddNewNodeToBatch, BatchFlush, importHandler.               *)
(***************************************************************************)
\* the value addEdge sets on the edge `name` of the node of feature feat
EdgeValue(feat, name) ==
    CASE name = "cartodb_id" -> feat.properties.cartodb_id
      [] name = "name" -> feat.properties.name
      [] name = "population" -> feat.properties.population
      [] name = "geo" -> EncodeGeoJson(feat.geometry)
      [] OTHER -> "v"

\* AddNewNodeToBatch of feat.  fail = 0: NodeBlank fails; fail = k in 1..9:
\* the k-th addEdge fails, after the edges before it went to the batch;
\* fail = 10: nothing fails.  uid is the next blank node.
AddNewNodeToBatch(feat, fail, batch, uid) ==
    IF fail = 0 THEN [err |-> TRUE, batch |-> batch, uid |-> uid]
    ELSE [err |-> fail <= Len(EdgeNames),
          batch |-> batch \o [i \in 1..Min(fail - 1, Len(EdgeNames)) |->
                                [uid |-> uid, pred |-> EdgeNames[i],
                                 val |-> EdgeValue(feat, EdgeNames[i])]],
          uid |-> uid + 1]

\* one edge of the batch written to the store
ApplyEdge(st, e) ==
    LET old == IF e.uid \in DOMAIN st THEN st[e.uid] ELSE EmptyNode
        set == [old EXCEPT !.preds = @ \cup {e.pred}]
        new == CASE e.pred = "cartodb_id" -> [set EXCEPT !.cartodb_id = e.val]
                 [] e.pred = "name" -> [set EXCEPT !.name = e.val]
                 [] e.pred = "population" -> [set EXCEPT !.population = e.val]
                 [] e.pred = "geo" -> [set EXCEPT !.geo = e.val]
                 [] OTHER -> set
    IN  [u \in DOMAIN st \cup {e.uid} |-> IF u = e.uid THEN new ELSE st[u]]

\* a flush that writes nothing
BatchFlushNothing(batch, st) == st

\* BatchFlush: every pending edge of the batch is written
RECURSIVE BatchFlush(_, _)
BatchFlush(batch, st) ==
    IF batch = <<>> THEN st
    ELSE BatchFlush(Tail(batch), ApplyEdge(st, Head(batch)))

\* the loop of importHandler that goes on with the next feature after an
\* AddNewNodeToBatch that failed
RECURSIVE importLoopContinue(_, _, _, _, _)
importLoopContinue(feats, fails, batch, uid, calls) ==
    IF feats = <<>> THEN [err |-> FALSE, batch |-> batch, uid |-> uid, calls |-> calls]
    ELSE LET a == AddNewNodeToBatch(Head(feats), Head(fails), batch, uid)
         IN  importLoopContinue(Tail(feats), Tail(fails), a.batch, a.uid,
                 Append(calls, [op |-> "AddNewNodeToBatch",
                                id |-> Head(feats).properties.cartodb_id,
                                err |-> a.err]))

\* the loop of importHandler over feats.Features; fails[i] is the outcome of
\* AddNewNodeToBatch for the i-th feature
RECURSIVE importLoop(_, _, _, _, _)
importLoop(feats, fails, batch, uid, calls) ==
    IF feats = <<>> THEN [err |-> FALSE, batch |-> batch, uid |-> uid, calls |-> calls]
    ELSE LET a == AddNewNodeToBatch(Head(feats), Head(fails), batch, uid)
             call == [op |-> "AddNewNodeToBatch",
                      id |-> Head(feats).properties.cartodb_id, err |-> a.err]
         IN  IF a.err
             THEN [err |-> TRUE, batch |-> a.batch, uid |-> a.uid,
                   calls |-> Append(calls, call)]
             ELSE importLoop(Tail(feats), Tail(fails), a.batch, a.uid,
                             Append(calls, call))

\* importHandler that goes on with no feature when the body does not parse
importHandlerNoParseCheck(r, fails, st, batch, uid) ==
    IF r.body.io # "ok"
    THEN [ret |-> internalError(r.body.io), st |-> st, batch |-> batch,
          uid |-> uid, calls |-> <<>>]
    ELSE [ret |-> [code |-> StatusCreated, jsonTempl |-> NilTempl],
          st |-> BatchFlush(batch, st), batch |-> <<>>, uid |-> uid,
          calls |-> <<[op |-> "BatchFlush"]>>]

\* importHandler: the reply and the store, batch and next blank node after it
importHandler(r, fails, st, batch, uid) ==
    LET keep == [st |-> st, batch |-> batch, uid |-> uid, calls |-> <<>>]
        loop == importLoop(r.body.features, fails, batch, uid, <<>>)
    IN  IF r.body.io # "ok"
        THEN [ret |-> internalError(r.body.io)] @@ keep
        ELSE IF r.body.json # "ok"
        THEN [ret |-> [code |-> StatusUnprocessableEntity,
                       jsonTempl |-> ErrorRep(Sprintf("ErrUnprocessableEntity",
                                                      <<r.body.json>>))]] @@ keep
        ELSE IF loop.err
        THEN [ret |-> internalError("AddNewNodeToBatch"), st |-> st,
              batch |-> loop.batch, uid |-> loop.uid, calls |-> loop.calls]
        ELSE [ret |-> [code |-> StatusCreated, jsonTempl |-> NilTempl],
              st |-> BatchFlush(loop.batch, st), batch |-> <<>>, uid |-> loop.uid,
              calls |-> Append(loop.calls, [op |-> "BatchFlush"])]

(***************************************************************************)
(* getRoutes and the router: the handler a request is routed to.           *)
(***************************************************************************)
\* the pattern [^/]+, which mux takes for {id} without an expression
IsAnyId(id) == id # <<>>

\* the pattern [0-9]+
IsNumericId(id) == id # <<>> /\ \A i \in 1..Len(id) : IsDigit(id[i])

Route(r) ==
    IF r.method = "GET" /\ r.path.kind = "root" THEN "Status"
    ELSE IF r.method = "POST" /\ r.path.kind = "import" THEN "Import"
    ELSE IF r.method = "GET" /\ r.path.kind = "id" /\ IsNumericId(r.path.id)
    THEN "Find"
    ELSE "NotFound"

(***************************************************************************)
(* State.  The server handles one request at a time.  pc is the position   *)
(* of the handler: "idle" (no request), "around" (findHandler waits for    *)
(* the reply to its GetCitiesAround request), "done" (ServeHTTP returned). *)
(***************************************************************************)
VARIABLES
    store,      \* the nodes of dgraph, by uid
    batch,      \* the edges given to BatchSet and not yet flushed
    nextUid,    \* the next blank node
    pc,         \* the position of the handler
    handler,    \* the handler the request was routed to ("none" when idle)
    req,        \* the request
    ret,        \* the httpRetMsg its handler returned
    w,          \* what ServeHTTP wrote to the ResponseWriter
    calls,      \* the calls of the store made for the request, in order
    boxArgs,    \* the arguments of the last call of getBoundingBox
    box,        \* what that call returned
    conns       \* the locals of the findHandler of each connection served
                \* at the same time as others

\* the variables of the server, and those of the bounding box computation
serverVars == <<store, batch, nextUid, pc, handler, req, ret, w, calls>>
boxVars == <<boxArgs, box>>

vars == <<store, batch, nextUid, pc, handler, req, ret, w, calls, boxArgs, box,
          conns>>

(***************************************************************************)
(* The requests and the answers of dgraph the model draws from.            *)
(***************************************************************************)
StoredPoint(id, name, population, lon, lat) ==
    [preds |-> Range(EdgeNames), cartodb_id |-> id, name |-> name,
     population |-> population, geo |-> <<WkbNDR, WkbPoint, lon, lat>>]

\* the cities of the tests, and a node whose geometry is truncated
InitStore ==
    <<StoredPoint(123, "Jeannettes Creek", 244, -8242, 4232),
      StoredPoint(134, "Bradley", 2500, -8241, 4234),
      StoredPoint(42, "Amherstburg", 8921, -8311, 4210),
      [StoredPoint(7, "Truncated", 10, 0, 0) EXCEPT !.geo = <<WkbNDR, WkbPoint, -8240>>]>>

Feature(id, name, population, lon, lat) ==
    [geometry |-> [type |-> "Point", coordinates |-> <<lon, lat>>],
     properties |-> [name |-> name, population |-> population, cartodb_id |-> id]]

FeaturePool == {Feature(106, "Lighthouse", 410, -8245, 4229),
                Feature(744, "Oriel", 2500, -8064, 4307)}

\* values of dist that are a uint64: zero and two radii
ValidDists == {<<"0">>, <<"4">>, <<"1", "1", "1">>}

\* values of dist that are none: empty, not a number, negative, too large
InvalidDists == {<<>>, <<"i", "d", "e", "i", "j">>, <<"-", "1">>,
                 <<"2", "0", "4", "9">>}

DistValues == ValidDists \cup InvalidDists

Params == {<<"dist", v>> : v \in DistValues} \cup {<<"fko", <<"6", "7">>>>}

Queries == SeqsUpTo(Params, MaxParams)

\* ids of the path: three stored cities (the last with a truncated geometry),
\* a city that is stored once it is imported, and an id that is never stored
FindIds == {<<"1", "2", "3">>, <<"4", "2">>, <<"7">>, <<"1", "0", "6">>,
            <<"9", "9">>}

NoBody == [io |-> "ok", json |-> "ok", features |-> <<>>]

Request(method, kind, id, query, body) ==
    [method |-> method, path |-> [kind |-> kind, id |-> id], query |-> query,
     body |-> body]

NoRequest == Request("", "none", <<>>, <<>>, NoBody)
NoRet == [code |-> 0, jsonTempl |-> NilTempl]
NoWrite == [header |-> "", status |-> 0, body |-> NilTempl]

FindRequests == {Request("GET", "id", id, q, NoBody) : id \in FindIds, q \in Queries}

ImportBodies(room) ==
    {[io |-> "readerr", json |-> "ok", features |-> <<>>],
     [io |-> "closeerr", json |-> "ok", features |-> <<>>],
     [io |-> "ok", json |-> "syntax error", features |-> <<>>]}
    \cup {[io |-> "ok", json |-> "ok", features |-> f] : f \in SeqsUpTo(FeaturePool, room)}

UnroutedRequests ==
    {Request("GET", "other", <<>>, <<>>, NoBody),
     Request("POST", "id", <<"4", "2">>, <<>>, NoBody),
     Request("GET", "id", <<"r", "t", "2">>, <<>>, NoBody),
     Request("GET", "id", <<"r", "t", "2">>, <<<<"dist", <<"4">>>>>>, NoBody),
     Request("GET", "import", <<>>, <<>>, NoBody),
     Request("POST", "root", <<>>, <<>>, NoBody)}

\* the requests that reach the router, apart from GET / and POST /import
Requests == FindRequests \cup UnroutedRequests

ErrRun == [err |-> TRUE, children |-> <<>>]

\* the nodes that eq(cartodb_id, $id) selects
Matches(st, id) ==
    {u \in DOMAIN st : "cartodb_id" \in st[u].preds
                       /\ st[u].cartodb_id = ParseDigits(id, 0)}

\* what dgraph can answer to GetCity: an error, or the node with that id
GetCityRuns(st, id) ==
    {ErrRun} \cup
    (IF Matches(st, id) = {} THEN {[err |-> FALSE, children |-> <<>>]}
     ELSE {[err |-> FALSE, children |-> <<st[u]>>] : u \in Matches(st, id)})

\* what dgraph can answer to GetCitiesAround: an error, or stored nodes
AroundRuns(st) ==
    {ErrRun} \cup
    {[err |-> FALSE, children |-> [i \in 1..Len(s) |-> st[s[i]]]] :
        s \in SeqsUpTo(DOMAIN st, MaxReply)}

\* findHandler sends the GetCitiesAround request
ReachesAround(r, gcRun) == Len(findHandler(r, gcRun, ErrRun).calls) = 2

\* the connections, and the locals of a findHandler that serves none
Conns == 1..MaxConns

NoRun == [err |-> FALSE, children |-> <<>>]

IdleConn == [pc |-> "idle", req |-> NoRequest, gcRun |-> NoRun, gaRun |-> NoRun,
             calls |-> <<>>, ret |-> NoRet, w |-> NoWrite]

IdleConns == [c \in Conns |-> IdleConn]

(***************************************************************************)
(* Init and the actions.                                                   *)
(***************************************************************************)
Init ==
    /\ store = InitStore
    /\ batch = <<>>
    /\ nextUid = Len(InitStore) + 1
    /\ pc = "idle"
    /\ handler = "none"
    /\ req = NoRequest
    /\ ret = NoRet
    /\ w = NoWrite
    /\ calls = <<>>
    /\ boxArgs = <<>>
    /\ conns = IdleConns
    /\ box = <<>>

\* the handler h of request r returned and ServeHTTP wrote the reply
Served(name, r, h) ==
    /\ pc' = "done"
    /\ handler' = name
    /\ req' = r
    /\ ret' = h.ret
    /\ w' = ServeHTTP(h.ret)
    /\ calls' = h.calls

\* GET /
Status ==
    /\ pc = "idle"
    /\ Served("Status", Request("GET", "root", <<>>, <<>>, NoBody),
              statusHandler(Request("GET", "root", <<>>, <<>>, NoBody)))
    /\ UNCHANGED <<store, batch, nextUid>>
    /\ UNCHANGED boxVars
    /\ UNCHANGED conns

\* a request that matches no route
NotFound ==
    /\ pc = "idle"
    /\ \E r \in Requests :
        /\ Route(r) = "NotFound"
        /\ Served("NotFound", r, notFoundHandler(r))
    /\ UNCHANGED <<store, batch, nextUid>>
    /\ UNCHANGED boxVars
    /\ UNCHANGED conns

\* GET /id/{id}: findHandler up to its reply, or up to its GetCitiesAround
\* request; gcRun is the answer of dgraph to GetCity
Find ==
    /\ pc = "idle"
    /\ \E r \in Requests :
        /\ Route(r) = "Find"
        /\ \E gcRun \in GetCityRuns(store, r.path.id) :
            LET h == findHandler(r, gcRun, ErrRun)
            IN  IF ReachesAround(r, gcRun)
                THEN /\ pc' = "around"
                     /\ handler' = "Find"
                     /\ req' = r
                     /\ calls' = h.calls
                     /\ UNCHANGED <<ret, w>>
                ELSE Served("Find", r, h)
    /\ UNCHANGED <<store, batch, nextUid>>
    /\ UNCHANGED boxVars
    /\ UNCHANGED conns

\* dgraph answers the GetCitiesAround request with gaRun; findHandler ends
FindAround ==
    /\ pc = "around"
    /\ \E gaRun \in AroundRuns(store) :
        Served("Find", req,
               findHandler(req, [err |-> calls[1].err, children |-> calls[1].children],
                           gaRun))
    /\ UNCHANGED <<store, batch, nextUid>>
    /\ UNCHANGED boxVars
    /\ UNCHANGED conns

\* POST /import while the store allocates no more than maxNodes nodes; fails
\* are the outcomes of AddNewNodeToBatch
ImportUpTo(maxNodes) ==
    /\ pc = "idle"
    /\ \E body \in ImportBodies(maxNodes + 1 - nextUid) :
       \E fails \in [1..Len(body.features) -> 0..(Len(EdgeNames) + 1)] :
        LET r == Request("POST", "import", <<>>, <<>>, body)
            h == importHandler(r, fails, store, batch, nextUid)
        IN  /\ Route(r) = "Import"
            /\ Served("Import", r, h)
            /\ store' = h.st
            /\ batch' = h.batch
            /\ nextUid' = h.uid
    /\ UNCHANGED boxVars
    /\ UNCHANGED conns

\* POST /import
Import == ImportUpTo(MaxNodes)

\* the connection of the served request ends; the server waits for the next
Done ==
    /\ pc = "done"
    /\ pc' = "idle"
    /\ handler' = "none"
    /\ req' = NoRequest
    /\ ret' = NoRet
    /\ w' = NoWrite
    /\ calls' = <<>>
    /\ UNCHANGED <<store, batch, nextUid>>
    /\ UNCHANGED boxVars
    /\ UNCHANGED conns

Next == Status \/ NotFound \/ Find \/ FindAround \/ Import \/ Done

Spec == Init /\ [][Next]_vars

(***************************************************************************)
(* The server on a store that other clients of dgraph wrote to: besides a  *)
(* point and a truncated geometry it holds a polygon and an empty polygon. *)
(***************************************************************************)
GeoStore ==
    <<StoredPoint(123, "Jeannettes Creek", 244, -8242, 4232),
      [StoredPoint(42, "Amherstburg", 8921, 0, 0) EXCEPT
          !.geo = <<WkbNDR, WkbPolygon, -8311, 4210, -8310, 4210,
                    -8310, 4211, -8311, 4210>>],
      [StoredPoint(7, "Truncated", 10, 0, 0) EXCEPT !.geo = <<WkbNDR, WkbPoint, -8240>>],
      [StoredPoint(106, "Lighthouse", 410, 0, 0) EXCEPT !.geo = <<WkbNDR, WkbPolygon>>]>>

InitGeo ==
    /\ store = GeoStore
    /\ batch = <<>>
    /\ nextUid = Len(GeoStore) + 1
    /\ pc = "idle"
    /\ handler = "none"
    /\ req = NoRequest
    /\ ret = NoRet
    /\ w = NoWrite
    /\ calls = <<>>
    /\ boxArgs = <<>>
    /\ conns = IdleConns
    /\ box = <<>>

NextGeo == Status \/ NotFound \/ Find \/ FindAround \/ Done

SpecGeo == InitGeo /\ [][NextGeo]_vars

(***************************************************************************)
(* GET /id/{id} on several connections at once: net/http runs the handler  *)
(* of each connection in a goroutine of its own, and the goroutines        *)
(* interleave at their calls of dgraph.  The store does not change.        *)
(***************************************************************************)
\* the requests of the connections: two stored cities, a city whose geometry
\* is truncated and an id that is not stored, with and without dist
ConcRequests ==
    {Request("GET", "id", id, q, NoBody) :
        id \in {<<"1", "2", "3">>, <<"4", "2">>, <<"7">>, <<"9", "9">>},
        q \in {<<>>, <<<<"dist", <<"0">>>>>>, <<<<"dist", <<"4">>>>>>,
               <<<<"dist", <<"i", "d", "e", "i", "j">>>>>>}}

\* a handler that reads the city of the first connection, as it would if
\* city were kept in the Server
gcRunOfFirst(cs, c) == cs[1].gcRun

\* city, the local of the findHandler of connection c
gcRunOf(cs, c) == cs[c].gcRun

\* the locals of a connection after GetCity answered gcRun to request r and
\* findHandler went on to h
connAfterCity(r, gcRun, h) ==
    IF Len(h.calls) = 2
    THEN [pc |-> "around", req |-> r, gcRun |-> gcRun, gaRun |-> NoRun,
          calls |-> <<h.calls[1]>>, ret |-> NoRet, w |-> NoWrite]
    ELSE [pc |-> "done", req |-> r, gcRun |-> gcRun, gaRun |-> NoRun,
          calls |-> h.calls, ret |-> h.ret, w |-> ServeHTTP(h.ret)]

\* the locals of connection cn after GetCitiesAround answered gaRun and
\* findHandler ended as h
connAfterAround(cn, gaRun, h) ==
    [pc |-> "done", req |-> cn.req, gcRun |-> cn.gcRun, gaRun |-> gaRun,
     calls |-> h.calls, ret |-> h.ret, w |-> ServeHTTP(h.ret)]

\* connection c: findHandler up to its reply or its GetCitiesAround request
ConnFind(c) ==
    /\ conns[c].pc = "idle"
    /\ \E r \in ConcRequests :
        /\ Route(r) = "Find"
        /\ \E gcRun \in GetCityRuns(store, r.path.id) :
            conns' = [conns EXCEPT
                         ![c] = connAfterCity(r, gcRun, findHandler(r, gcRun, ErrRun))]
    /\ UNCHANGED serverVars
    /\ UNCHANGED boxVars

\* connection c: dgraph answers its GetCitiesAround request; findHandler ends
ConnAround(c) ==
    /\ conns[c].pc = "around"
    /\ \E gaRun \in AroundRuns(store) :
        conns' = [conns EXCEPT
                     ![c] = connAfterAround(conns[c], gaRun,
                                findHandler(conns[c].req, gcRunOf(conns, c), gaRun))]
    /\ UNCHANGED serverVars
    /\ UNCHANGED boxVars

\* connection c ends
ConnDone(c) ==
    /\ conns[c].pc = "done"
    /\ conns' = [conns EXCEPT ![c] = IdleConn]
    /\ UNCHANGED serverVars
    /\ UNCHANGED boxVars

NextConc == \E c \in Conns : ConnFind(c) \/ ConnAround(c) \/ ConnDone(c)

SpecConc == Init /\ [][NextConc]_vars

(***************************************************************************)
(* The server without GET /id/{id}, with room for imports of several       *)
(* features.                                                               *)
(***************************************************************************)
\* POST /import, the store allocating up to MaxImportNodes nodes
ImportMany == ImportUpTo(MaxImportNodes)

NextImport == Status \/ NotFound \/ ImportMany \/ Done

SpecImport == Init /\ [][NextImport]_vars

(***************************************************************************)
(* getBoundingBox on its own: GetCitiesAround calls it for a position and  *)
(* a distance.                                                             *)
(***************************************************************************)
\* longitudes and latitudes of the positions, in 1/100 degree: the limits,
\* next to the limits, the cities of the tests, the origin
BoxLons == {-180 * DegScale, -17990, -8242, 0, 17870, 17990, 180 * DegScale}
BoxLats == {-90 * DegScale, -8990, -4500, 0, 4232, 8950, 8990, 90 * DegScale}

\* distances in km
BoxDists == {0, 1, 4, 10, 111, 500, UintMax}

Box ==
    /\ \E lon \in BoxLons, lat \in BoxLats, dist \in BoxDists :
        /\ boxArgs' = <<lon, lat, dist>>
        /\ box' = getBoundingBox(lon, lat, dist)
    /\ UNCHANGED serverVars
    /\ UNCHANGED conns

SpecBox == Init /\ [][Box]_vars

(***************************************************************************)
(* The vocabulary of the properties.  They are stated on the state after   *)
(* ServeHTTP returned (pc = "done"): req is the request, w what the client *)
(* is sent, calls the calls of the store and their answers.                *)
(***************************************************************************)
FindServed == pc = "done" /\ handler = "Find"

\* GetCity answered without error
CityAnswered == FindServed /\ ~calls[1].err

\* GetCity answered without error and with no entity
CityNotFound == CityAnswered /\ calls[1].children = <<>>

\* GetCity answered with the entity of the id, and its geometry decodes
CityFound ==
    /\ CityAnswered
    /\ calls[1].children # <<>>
    /\ ~DecodeGeoDatas(calls[1].children[1].geo).err

\* the node GetCity answered with
TheCity == calls[1].children[1]

\* the CityTempl that carries the stored values of a node and the [lon, lat]
\* of its stored point
Stored(node) ==
    CityTempl(node.cartodb_id, node.name, node.population,
              <<node.geo[3], node.geo[4]>>)

\* the keys of the query string, and the values of dist in it
QueryKeys == {req.query[i][1] : i \in 1..Len(req.query)}

HasDist == "dist" \in QueryKeys

\* the query string is dist=v with v one of vs
OnlyDistIn(vs) ==
    Len(req.query) = 1 /\ req.query[1][1] = "dist" /\ req.query[1][2] \in vs

\* findHandler called GetCitiesAround, which answered without error
AroundAnswered == FindServed /\ Len(calls) = 2 /\ ~calls[2].err

\* the nodes GetCitiesAround answered with
AroundNodes == calls[2].children

\* the error body of the 400 for unknown parameters
UnknownQsParamBody == ErrorRep(Sprintf("ErrUnknownQsParam", <<>>))

(***************************************************************************)
(* C1..C10: the contract of GET /id/{id}.                                  *)
(***************************************************************************)
\* C1: a GET /id/{id} whose id matches no stored entity (GetCity answers
\* with no entity and no error) is answered 404 with the ErrNotFoundId
\* message made from the requested id, whatever the query string is, and
\* without any further call of the store; and no request for an id that no
\* stored entity has is ever answered 400.
C1_UnknownIdIs404 ==
    /\ CityNotFound =>
          /\ ClientStatus(w) = StatusNotFound
          /\ w.body = ErrorRep(Sprintf("ErrNotFoundId", <<req.path.id>>))
          /\ Len(calls) = 1
    /\ (FindServed /\ Matches(store, req.path.id) = {}) =>
          ClientStatus(w) # StatusBadRequest

\* the case of C1: an unknown id with an invalid dist and an extra parameter
C1_Witness ==
    /\ CityNotFound
    /\ Len(req.query) = 2
    /\ \E i \in 1..2 : req.query[i][1] = "dist" /\ req.query[i][2] \in InvalidDists
    /\ \E i \in 1..2 : req.query[i][1] # "dist"
    /\ ClientStatus(w) = StatusNotFound

\* C2: a GET /id/{id} on an entity that is found and decodes, whose query
\* string is only dist with one value that is no base-10 uint64 (empty, not
\* a number, negative, too large), is answered 400 with the
\* ErrInvalidUIntQsParam message made from that value and from "dist"; the
\* polygon query GetCitiesAround is not called.
C2_InvalidDistIs400 ==
    (CityFound /\ OnlyDistIn(InvalidDists)) =>
        /\ ClientStatus(w) = StatusBadRequest
        /\ w.body = ErrorRep(Sprintf("ErrInvalidUIntQsParam",
                                     <<req.query[1][2], "dist">>))
        /\ \A i \in 1..Len(calls) : calls[i].op # "GetCitiesAround"

\* the case of C2: dist is too large for the uint64
C2_Witness ==
    /\ CityFound
    /\ OnlyDistIn({<<"2", "0", "4", "9">>})
    /\ ClientStatus(w) = StatusBadRequest

\* C3: a GET /id/{id} on an entity that is found and decodes, whose query
\* string holds dist and at least one other parameter, is answered 400 with
\* the ErrUnknownQsParam message, dist valid or not; never a collection.
C3_DistWithOtherIs400 ==
    (CityFound /\ HasDist /\ QueryKeys # {"dist"}) =>
        /\ ClientStatus(w) = StatusBadRequest
        /\ w.body = UnknownQsParamBody
        /\ w.body.type # "CitiesTempl"

\* C4: a GET /id/{id} on an entity that is found and decodes, whose query
\* string is not empty and holds no dist, is answered 400 with the
\* ErrUnknownQsParam message, not 200 with the entity.
C4_UnknownOnlyIs400 ==
    (CityFound /\ req.query # <<>> /\ ~HasDist) =>
        /\ ClientStatus(w) = StatusBadRequest
        /\ w.body = UnknownQsParamBody

\* the reply to the request without query string, for the same id and the
\* same answer of the store
PlainReply ==
    ServeHTTP(findHandler(Request("GET", "id", req.path.id, <<>>, NoBody),
                          [err |-> FALSE, children |-> calls[1].children],
                          ErrRun).ret)

\* C5: for an entity that is found and decodes, GET /id/{id}?dist=0 is
\* answered 200 with a collection of exactly one element, and that element
\* is the body of the 200 answer to GET /id/{id} without dist, which is a
\* single object: same id, name, population and coordinates, other envelope.
\* The store is not asked for the polygon.
C5_DistZeroIsSingleton ==
    (CityFound /\ OnlyDistIn({<<"0">>})) =>
        /\ ClientStatus(w) = StatusOK
        /\ w.body.type = "CitiesTempl"
        /\ Len(w.body.cities) = 1
        /\ ClientStatus(PlainReply) = StatusOK
        /\ PlainReply.body.type = "CityTempl"
        /\ w.body.cities[1] = PlainReply.body
        /\ Len(calls) = 1

\* the case of C5: dist=0 on a stored city
C5_Witness ==
    /\ CityFound
    /\ OnlyDistIn({<<"0">>})
    /\ w.body = CitiesTempl(<<Stored(TheCity)>>)

\* C6: a GET /id/{id} with an empty query string on an entity that is found
\* and decodes is answered 200 with a single object, no collection, whose
\* cartodb_id, name and population are the stored ones and whose
\* coordinates are the [lon, lat] of the stored point.
C6_PlainLookup ==
    (CityFound /\ req.query = <<>>) =>
        /\ ClientStatus(w) = StatusOK
        /\ w.header = JsonContentType
        /\ w.body.type = "CityTempl"
        /\ w.body = Stored(TheCity)

\* the case of C6: the lookup of id 42
C6_Witness ==
    /\ CityFound
    /\ req.query = <<>>
    /\ req.path.id = <<"4", "2">>
    /\ w.body = CityTempl(42, "Amherstburg", 8921, <<-8311, 4210>>)

\* every node of the sequence decodes
AllDecode(nodes) == \A i \in 1..Len(nodes) : ~DecodeGeoDatas(nodes[i].geo).err

\* C7: for GET /id/{id}?dist=d with d > 0 on an entity that is found and
\* decodes, when GetCitiesAround answers n entities that all decode, the
\* answer is 200 with a collection of exactly n elements, the i-th carrying
\* the id, name, population and coordinates of the i-th entity answered:
\* nothing added, dropped, deduplicated or reordered.
C7_CollectionAsAnswered ==
    (CityFound /\ AroundAnswered /\ AllDecode(AroundNodes)) =>
        /\ ClientStatus(w) = StatusOK
        /\ w.body.type = "CitiesTempl"
        /\ Len(w.body.cities) = Len(AroundNodes)
        /\ \A i \in 1..Len(AroundNodes) : w.body.cities[i] = Stored(AroundNodes[i])

\* the case of C7: an answer that holds an entity twice and is not sorted
C7_Witness ==
    /\ CityFound
    /\ AroundAnswered
    /\ AllDecode(AroundNodes)
    /\ Len(AroundNodes) = 3
    /\ AroundNodes[1] = AroundNodes[3]
    /\ AroundNodes[1].cartodb_id > AroundNodes[2].cartodb_id
    /\ ClientStatus(w) = StatusOK

\* the nodes of the store that hold a point
Points(st) ==
    {st[u] : u \in {v \in DOMAIN st : "geo" \in st[v].preds
                                      /\ ~DecodeGeoDatas(st[v].geo).err}}

\* the point of node lies within the polygon: between the extreme
\* coordinates of its ring, which is a rectangle
Within(node, polygon) ==
    LET ring == polygon[1]
        xs == {ring[i][1] : i \in 1..Len(ring)}
        ys == {ring[i][2] : i \in 1..Len(ring)}
    IN  /\ \E a, b \in xs : a <= node.geo[3] /\ node.geo[3] <= b
        /\ \E a, b \in ys : a <= node.geo[4] /\ node.geo[4] <= b

\* the point of node lies inside the rectangle bb of getBoundingBox
InBox(node, bb) ==
    /\ bb[1] <= node.geo[4] /\ node.geo[4] <= bb[3]
    /\ bb[2] <= node.geo[3] /\ node.geo[3] <= bb[4]

\* GetCitiesAround answered exactly the stored points within the polygon
\* that it was sent
ExactAnswer ==
    /\ AroundAnswered
    /\ Range(AroundNodes) = {n \in Points(store) : Within(n, calls[2].bndBox)}

\* C8: for a center entity that is found and decodes at c and a valid
\* dist d > 0, when the store answers the polygon query exactly, the
\* entities of the 200 answer are the stored entities whose point lies
\* inside the rectangle getBoundingBox(c, d): each of them and no other.
C8_ExactlyTheBox ==
    (CityFound /\ ExactAnswer) =>
        /\ ClientStatus(w) = StatusOK
        /\ w.body.type = "CitiesTempl"
        /\ Range(w.body.cities) =
              {Stored(n) : n \in
                  {m \in Points(store) :
                      InBox(m, getBoundingBox(TheCity.geo[3], TheCity.geo[4],
                                              calls[2].dist))}}

\* the case of C8: the 4 km around Jeannettes Creek hold two stored
\* cities or more, and a stored city lies outside
C8_Witness ==
    /\ CityFound
    /\ ExactAnswer
    /\ TheCity.cartodb_id = 123
    /\ calls[2].dist = 4
    /\ Cardinality(Range(w.body.cities)) >= 2
    /\ \E n \in Points(store) : Stored(n) \notin Range(w.body.cities)

\* C9: in a proximity query (dist > 0), when the geometry of one of the
\* entities GetCitiesAround answered does not decode, at whatever position,
\* the request fails with the internal error and the answer holds no
\* entity: no collection of the entities that did decode is sent.
C9_NoPartialCollection ==
    (CityFound /\ AroundAnswered /\ ~AllDecode(AroundNodes)) =>
        /\ ClientStatus(w) = StatusInternalServerError
        /\ w.body = NilTempl
        /\ ret.jsonTempl = NilTempl

\* the case of C9: the entity that does not decode is the last of three
C9_Witness ==
    /\ CityFound
    /\ AroundAnswered
    /\ Len(AroundNodes) = 3
    /\ AllDecode(SubSeq(AroundNodes, 1, 2))
    /\ ~AllDecode(AroundNodes)
    /\ ClientStatus(w) = StatusInternalServerError

\* a call of the store failed while the request was handled
StoreFailed == pc = "done" /\ \E i \in 1..Len(calls) :
                   calls[i].op # "BatchFlush" /\ calls[i].err

\* a geometry did not decode while the request was handled
DecodeFailed ==
    \/ CityAnswered /\ calls[1].children # <<>>
                    /\ DecodeGeoDatas(TheCity.geo).err
    \/ CityFound /\ AroundAnswered /\ ~AllDecode(AroundNodes)

\* C10: when a call of the store (GetCity, GetCitiesAround,
\* AddNewNodeToBatch) or the decoding of a geometry fails while a request
\* is handled, the status code the client is sent is 500, never 200 or
\* 404; and an entity that is not found (no entity, no error) is never
\* answered 500.
C10_FailureIs500 ==
    /\ (StoreFailed \/ DecodeFailed) => ClientStatus(w) = StatusInternalServerError
    /\ CityNotFound => ClientStatus(w) # StatusInternalServerError

\* the case of C10: GetCitiesAround failed after GetCity found the city
C10_Witness ==
    /\ CityFound
    /\ Len(calls) = 2
    /\ calls[2].err
    /\ ClientStatus(w) = StatusInternalServerError

(***************************************************************************)
(* C11..C20: internal errors, the import, the router, the headers, and     *)
(* the bounding box.                                                       *)
(***************************************************************************)
\* the body {error: "Internal Error"} of an internal error
InternalErrorBody == ErrorRep(Sprintf("Internal Error", <<>>))

\* C11: every 500 answer carries the generic internal-error body
\* {error: <generic message>}, the same for every internal failure and
\* without the text of the error of the store or of the decoding.
C11_500HasGenericBody ==
    (pc = "done" /\ ClientStatus(w) = StatusInternalServerError) =>
        /\ w.header = JsonContentType
        /\ w.body = InternalErrorBody

ImportServed == pc = "done" /\ handler = "Import"

\* the body of the request was read and is not the JSON of an import
Unparseable(r) == r.body.io = "ok" /\ r.body.json # "ok"

\* C12: a POST /import whose body does not parse as the import payload is
\* answered 422 with an error body, and the request performs no write of
\* the store: no node is created, no edge is added to the batch, the batch
\* is not flushed.
C12_UnparseableIs422 ==
    [][(pc = "idle" /\ pc' = "done" /\ handler' = "Import" /\ Unparseable(req'))
         => /\ ClientStatus(w') = StatusUnprocessableEntity
            /\ w'.body = ErrorRep(Sprintf("ErrUnprocessableEntity",
                                          <<req'.body.json>>))
            /\ calls' = <<>>
            /\ UNCHANGED <<store, batch, nextUid>>]_vars

\* the case of C12: the body does not parse while edges of an earlier
\* import wait in the batch
C12_Witness ==
    /\ ImportServed
    /\ Unparseable(req)
    /\ batch # <<>>
    /\ ClientStatus(w) = StatusUnprocessableEntity

\* the step of a POST /import whose body parsed
ImportStep ==
    /\ pc = "idle" /\ pc' = "done" /\ handler' = "Import"
    /\ req'.body.io = "ok" /\ req'.body.json = "ok"

\* the node of the store that holds feature f
NodeOf(f) ==
    StoredPoint(f.properties.cartodb_id, f.properties.name,
                f.properties.population,
                f.geometry.coordinates[1], f.geometry.coordinates[2])

\* the i-th call is AddNewNodeToBatch of the i-th feature of the body
AddsInOrder(cs, feats, n) ==
    \A i \in 1..n :
        /\ cs[i].op = "AddNewNodeToBatch"
        /\ cs[i].id = feats[i].properties.cartodb_id

\* C13: for a POST /import with a well-formed body of n features where no
\* call of the store fails, the features are given to the store one by one
\* in the order of the body, the batch is flushed exactly once, after the
\* n-th feature, and the answer is sent with status 201 written; each
\* feature yields exactly one node of the store.
C13_ImportInOrder ==
    [][(ImportStep /\ \A i \in 1..Len(calls') :
                          calls'[i].op = "AddNewNodeToBatch" => ~calls'[i].err)
         => LET feats == req'.body.features
                n == Len(feats)
            IN  /\ Len(calls') = n + 1
                /\ AddsInOrder(calls', feats, n)
                /\ calls'[n + 1].op = "BatchFlush"
                /\ w'.status = StatusCreated
                /\ ClientStatus(w') = StatusCreated
                /\ batch' = <<>>
                /\ nextUid' = nextUid + n
                /\ {u \in DOMAIN store' : u >= nextUid}
                      = nextUid..(nextUid + n - 1)
                /\ \A i \in 1..n : store'[nextUid + i - 1] = NodeOf(feats[i])]_vars

\* the case of C13: two different features are imported
C13_Witness ==
    /\ ImportServed
    /\ Len(req.body.features) = 2
    /\ req.body.features[1] # req.body.features[2]
    /\ Len(calls) = 3
    /\ calls[3].op = "BatchFlush"
    /\ ClientStatus(w) = StatusCreated
    /\ store[nextUid - 1] = NodeOf(req.body.features[2])

\* C14: in an import of n features, when the adding of feature i fails the
\* request ends at once with the internal error: no feature after i is
\* given to the store, this request does not flush the batch, and the
\* answer is 500, not 201.
C14_FirstErrorStops ==
    [][(ImportStep /\ \E k \in 1..Len(calls') :
                          calls'[k].op = "AddNewNodeToBatch" /\ calls'[k].err)
         => LET feats == req'.body.features
                i == Len(calls')
            IN  /\ i <= Len(feats)
                /\ AddsInOrder(calls', feats, i)
                /\ \A j \in 1..(i - 1) : ~calls'[j].err
                /\ calls'[i].err
                /\ ClientStatus(w') = StatusInternalServerError
                /\ store' = store]_vars

\* the case of C14: the first of two features fails
C14_Witness ==
    /\ ImportServed
    /\ Len(req.body.features) = 2
    /\ Len(calls) = 1
    /\ calls[1].err
    /\ ClientStatus(w) = StatusInternalServerError

\* the request r matches no route: an unknown path, a known path with
\* another method, or /id/{id} with an id that is not all decimal digits
NoRoute(r) ==
    \/ r.path.kind \notin {"root", "import", "id"}
    \/ r.path.kind = "root" /\ r.method # "GET"
    \/ r.path.kind = "import" /\ r.method # "POST"
    \/ r.path.kind = "id" /\ r.method # "GET"
    \/ r.path.kind = "id" /\ \E i \in 1..Len(r.path.id) :
                                 r.path.id[i] \notin Range(Digits)

\* C15: a request that matches no route is answered 404 with the JSON error
\* body made from its method and path, by notFoundHandler and without any
\* call of the store; a GET /id/{id} whose id is not a number is answered
\* as route not found, not as city not found.
C15_NoRouteIs404 ==
    (pc = "done" /\ NoRoute(req)) =>
        /\ handler = "NotFound"
        /\ ClientStatus(w) = StatusNotFound
        /\ w.header = JsonContentType
        /\ w.body = ErrorRep(Sprintf("ErrRouteNotFound", <<req.method, req.path>>))
        /\ calls = <<>>

\* the case of C15: GET /id/rt2?dist=4
C15_Witness ==
    /\ pc = "done"
    /\ req.method = "GET"
    /\ req.path = [kind |-> "id", id |-> <<"r", "t", "2">>]
    /\ req.query # <<>>
    /\ w.body.type = "ErrorRep"
    /\ w.body.error.fmt = "ErrRouteNotFound"

\* C16: every answer that carries a JSON body (city, collection, status or
\* error) has the header Content-Type application/json; charset=UTF-8, and
\* the status code written is the code the handler returned.
C16_JsonHeaderAndCode ==
    (pc = "done" /\ w.body # NilTempl) =>
        /\ w.header = JsonContentType
        /\ w.status = ret.code
        /\ w.body = ret.jsonTempl

\* the case of C16: an error body with a status that is not 200
C16_Witness ==
    /\ pc = "done"
    /\ w.body.type = "ErrorRep"
    /\ w.status = StatusBadRequest
    /\ w.header = JsonContentType

(***************************************************************************)
(* The box <<minLat, minLon, maxLat, maxLon>> that getBoundingBox returned *)
(* for boxArgs = <<lon, lat, dist>>, in 1/100 degree.                      *)
(***************************************************************************)
BoxComputed == box # <<>>

\* the box does not reach a pole
NonPole == box[1] > -90 * DegScale /\ box[3] < 90 * DegScale

\* the angular radius dist / 6371.01 in 1/100 degree
AngularRadiusDeg(dist) == degrees(RoundDiv(dist * 100 * RadScale, EARTH_RADIUS))

\* the length in km of an arc of deg/100 degrees of a meridian of the
\* sphere of radius EARTH_RADIUS: 1112 m for each 1/100 degree
ArcKm(deg) ==
    RoundDiv(deg * RoundDiv(Pi * (EARTH_RADIUS \div 100), 180 * 1000), 1000)

\* what the rounding of one value to 1/100 degree (1.1 km) can change in a
\* difference of two values, in 1/100 degree and in km
DegSlack == DegScale \div DegScale
KmSlack == 2 * DegSlack

\* C17: GET /id/{id}?dist=N searches a square whose side is N km: the
\* north-south extent maxLat - minLat of the box for distance N, as km on
\* the sphere of radius 6371.01 km, is N when the box reaches no pole.
C17_SideIsDist ==
    (BoxComputed /\ NonPole) =>
        Abs(ArcKm(box[3] - box[1]) - boxArgs[3]) <= KmSlack

\* C18: for a center with longitude in [-180, 180] and latitude in
\* [-90, 90] and a radius >= 0, the four values getBoundingBox returns are
\* in range: minLon and maxLon in [-180, 180], minLat and maxLat in
\* [-90, 90], also when the box crosses the antimeridian or a pole.
C18_BoxInRange ==
    BoxComputed =>
        /\ -90 * DegScale <= box[1] /\ box[1] <= 90 * DegScale
        /\ -90 * DegScale <= box[3] /\ box[3] <= 90 * DegScale
        /\ -180 * DegScale <= box[2] /\ box[2] <= 180 * DegScale
        /\ -180 * DegScale <= box[4] /\ box[4] <= 180 * DegScale

\* the case of C18: the box crosses the antimeridian to the west
C18_Witness ==
    /\ BoxComputed
    /\ NonPole
    /\ boxArgs[1] < 0
    /\ box[2] > 0
    /\ box[4] < 0

\* a step from the box of a center for a radius to the box of the same
\* center for a larger radius
BoxGrows ==
    /\ BoxComputed
    /\ boxArgs'[1] = boxArgs[1] /\ boxArgs'[2] = boxArgs[2]
    /\ boxArgs[3] < boxArgs'[3]

\* C19 as stated: for every center and radii r1 < r2 the four bounds of
\* the box for r2 lie outside those of the box for r1: minLat(r2) <=
\* minLat(r1), maxLat(r2) >= maxLat(r1), minLon(r2) <= minLon(r1),
\* maxLon(r2) >= maxLon(r1), near the antimeridian and near a pole too.
C19_BoundsMonotone ==
    [][BoxGrows => /\ box'[1] <= box[1] /\ box'[3] >= box[3]
                   /\ box'[2] <= box[2] /\ box'[4] >= box[4]]_vars

\* the longitude x lies in the box b, which crosses the antimeridian when
\* its minLon is larger than its maxLon
LonInBox(x, b) ==
    IF b[2] <= b[4] THEN b[2] <= x /\ x <= b[4]
    ELSE x >= b[2] \/ x <= b[4]

\* C19 amended: for every center and radii r1 < r2, minLat(r2) <=
\* minLat(r1) and maxLat(r2) >= maxLat(r1); minLon(r2) <= minLon(r1) and
\* maxLon(r2) >= maxLon(r1) when the box for r2 does not cross the
\* antimeridian (minLon(r2) <= maxLon(r2)); when it crosses, each longitude
\* bound of the box for r1 is >= minLon(r2) or <= maxLon(r2).
C19_BoxContains ==
    [][BoxGrows => /\ box'[1] <= box[1] /\ box'[3] >= box[3]
                   /\ (box'[2] <= box'[4]) =>
                         (box'[2] <= box[2] /\ box'[4] >= box[4])
                   /\ LonInBox(box[2], box') /\ LonInBox(box[4], box')]_vars

\* the case of C19: a box that crosses the antimeridian, after a smaller
\* box of the same center was computed
C19_Witness ==
    /\ BoxComputed
    /\ NonPole
    /\ boxArgs[3] > 1
    /\ box[2] > box[4]

\* C20: when the box reaches no pole it is symmetric in latitude about the
\* center: maxLat - lat and lat - minLat are equal, and both are the
\* angular radius dist / 6371.01 in degrees (up to the rounding of a value).
C20_LatSymmetric ==
    (BoxComputed /\ NonPole) =>
        /\ Abs((box[3] - boxArgs[2]) - (boxArgs[2] - box[1])) <= DegSlack
        /\ Abs((box[3] - boxArgs[2]) - AngularRadiusDeg(boxArgs[3])) <= DegSlack
        /\ Abs((boxArgs[2] - box[1]) - AngularRadiusDeg(boxArgs[3])) <= DegSlack

\* the case of C20: 500 km around a center at 45 degrees south
C20_Witness ==
    /\ BoxComputed
    /\ NonPole
    /\ boxArgs[2] = -4500
    /\ boxArgs[3] = 500
    /\ box[3] - boxArgs[2] > 4 * DegScale

(***************************************************************************)
(* C21..C30: the edges of the bounding box, the decoding, panics,          *)
(* concurrent requests, the calls of the store, and failed imports.        *)
(***************************************************************************)
\* C21: getBoundingBox with radius 0 yields the degenerate box of the
\* center: minLat = maxLat = lat and minLon = maxLon = lon (up to the
\* rounding of a value), for every center, a center on a pole included.
C21_ZeroIsDegenerate ==
    (BoxComputed /\ boxArgs[3] = 0) =>
        /\ Abs(box[1] - boxArgs[2]) <= DegSlack
        /\ Abs(box[3] - boxArgs[2]) <= DegSlack
        /\ Abs(box[2] - boxArgs[1]) <= DegSlack
        /\ Abs(box[4] - boxArgs[1]) <= DegSlack

\* angular_distance, lat_rad and lon_rad of the call that boxArgs records
ArgAngular == RoundDiv(boxArgs[3] * 100 * RadScale, EARTH_RADIUS)
ArgLatRad == radians(boxArgs[2])
ArgLonRad == radians(boxArgs[1])

\* the circle of the call reaches or crosses a pole
ReachesPole ==
    ArgLatRad - ArgAngular <= MIN_LAT \/ ArgLatRad + ArgAngular >= MAX_LAT

\* C26: when the circle reaches or crosses a pole (lat - a <= -90 or
\* lat + a >= 90, a the angular radius) minLat is clamped to at least -90,
\* maxLat to at most 90, and the longitudes are the full band -180, 180;
\* in every other case minLon is lon - deltaLon and maxLon is
\* lon + deltaLon, each with at most one correction of 360 degrees.
C26_PoleIsFullBand ==
    BoxComputed =>
        IF ReachesPole
        THEN /\ box[1] = degrees(Max(ArgLatRad - ArgAngular, MIN_LAT))
             /\ box[3] = degrees(Min(ArgLatRad + ArgAngular, MAX_LAT))
             /\ box[1] >= -90 * DegScale /\ box[3] <= 90 * DegScale
             /\ box[2] = -180 * DegScale /\ box[4] = 180 * DegScale
        ELSE /\ box[2] \in { degrees(ArgLonRad - deltaLon(ArgAngular, ArgLatRad)),
                             degrees(ArgLonRad - deltaLon(ArgAngular, ArgLatRad)
                                     + 2 * Pi) }
             /\ box[4] \in { degrees(ArgLonRad + deltaLon(ArgAngular, ArgLatRad)),
                             degrees(ArgLonRad + deltaLon(ArgAngular, ArgLatRad)
                                     - 2 * Pi) }

\* the case of C26: the circle of a center off the pole crosses the south
\* pole
C26_Witness ==
    /\ BoxComputed
    /\ boxArgs[2] > -90 * DegScale
    /\ boxArgs[3] > 0
    /\ ReachesPole
    /\ box[1] = -90 * DegScale
    /\ box[3] < 0
    /\ box[2] = -180 * DegScale /\ box[4] = 180 * DegScale

\* geo is the blob of a well-formed single point
WellFormedPoint(geo) ==
    Len(geo) = 4 /\ geo[1] \in {0, 1} /\ geo[2] = WkbPoint

\* C22: a stored geometry decodes only when it is a well-formed single
\* point: a lookup of an entity whose blob is truncated or encodes another
\* geometry type (a polygon) is answered 500, never 200 with coordinates
\* that are not one [lon, lat] pair.
C22_OnlyPointsDecode ==
    (CityAnswered /\ calls[1].children # <<>> /\ ~WellFormedPoint(TheCity.geo))
        => ClientStatus(w) = StatusInternalServerError

\* the status codes the handlers and ServeHTTP send
SentCodes == {StatusOK, StatusCreated, StatusBadRequest, StatusNotFound,
              StatusUnprocessableEntity, StatusInternalServerError}

\* GetCity answered with an entity whose geometry decodes to fewer than two
\* coordinates
ShortCoordinates ==
    /\ CityFound
    /\ Len(DecodeGeoDatas(TheCity.geo).flat) < 2

\* C23: every handled request ends with one response that carries a status
\* code, and a request that meets an entity whose decoded coordinates have
\* fewer than two values is answered 500 instead of a panic.
C23_AlwaysAStatus ==
    pc = "done" =>
        /\ ClientStatus(w) \in SentCodes
        /\ ShortCoordinates => ClientStatus(w) = StatusInternalServerError

\* the reply of findHandler to the request of connection c when it runs
\* alone and dgraph gives it the answers it gave to c
AloneReply(c) ==
    ServeHTTP(findHandler(conns[c].req, conns[c].gcRun, conns[c].gaRun).ret)

\* a step of connection c leaves the locals of the other connections alone
OwnLocalsOnly ==
    \A c, d \in Conns :
        (conns'[c] # conns[c] /\ d # c) => conns'[d] = conns[d]

FindHandled == handler = "Find" /\ pc \in {"around", "done"}

\* findHandler sent the within-polygon query
AroundInvoked == Len(calls) = 2

\* the id lookup returned an entity whose geometry decoded
CityDecoded ==
    /\ ~calls[1].err
    /\ calls[1].children # <<>>
    /\ ~DecodeGeoDatas(calls[1].children[1].geo).err

\* dist was supplied once, with a value that is a uint64 larger than 0
PositiveDist ==
    /\ Cardinality({i \in 1..Len(req.query) : req.query[i][1] = "dist"}) = 1
    /\ \E i \in 1..Len(req.query) :
        /\ req.query[i][1] = "dist"
        /\ req.query[i][2] \in ValidDists \ {<<"0">>}

\* the query is never sent for a 400 or a 404, and comes after the id lookup
AroundOrder ==
    /\ AroundInvoked => calls[1].op = "GetCity" /\ calls[2].op = "GetCitiesAround"
    /\ (pc = "done" /\ ClientStatus(w) \in {StatusBadRequest, StatusNotFound})
           => ~AroundInvoked

SentRing == calls[2].bndBox[1]

\* what getBoundingBox returns for the [lon, lat] of the center entity and
\* the dist of the request
CenterBox ==
    getBoundingBox(calls[1].children[1].geo[3], calls[1].children[1].geo[4],
                   calls[2].dist)

\* C27: the polygon sent to the store for a proximity query is one closed
\* ring of exactly five (lon, lat) pairs in the order (minLon,minLat),
\* (maxLon,minLat), (maxLon,maxLat), (minLon,maxLat), (minLon,minLat):
\* first and last pair are equal, the longitude is the first component,
\* and the four values are those getBoundingBox returns for the center's
\* (lon, lat) and dist.
C27_RingOfTheBox ==
    (FindHandled /\ AroundInvoked) =>
        /\ Len(calls[2].bndBox) = 1
        /\ Len(SentRing) = 5
        /\ SentRing[1] = SentRing[5]
        /\ SentRing = << <<CenterBox[2], CenterBox[1]>>,
                         <<CenterBox[4], CenterBox[1]>>,
                         <<CenterBox[4], CenterBox[3]>>,
                         <<CenterBox[2], CenterBox[3]>>,
                         <<CenterBox[2], CenterBox[1]>> >>

\* the case of C27: the query for the 111 km around Amherstburg was sent
\* and is not answered yet
C27_Witness ==
    /\ pc = "around"
    /\ handler = "Find"
    /\ calls[1].children[1].cartodb_id = 42
    /\ calls[2].dist = 111
    /\ SentRing[1][1] < SentRing[2][1]
    /\ SentRing[2][2] < SentRing[3][2]
    /\ SentRing[1][1] < SentRing[1][2]

\* the calls of the store with operation op made for the request
CallsOf(op) == {i \in 1..Len(calls) : calls[i].op = op}

\* C28: a Find request is read-only and retry-free: it issues at most one
\* id lookup and at most one within-polygon query, issues no call again
\* after a failure, and writes nothing to the store (no node, no edge, no
\* flush): the stored entities are the same after any Find request.
C28_FindReadsOnce ==
    /\ [](FindHandled =>
            /\ Cardinality(CallsOf("GetCity")) = 1
            /\ Cardinality(CallsOf("GetCitiesAround")) <= 1
            /\ CallsOf("AddNewNodeToBatch") = {}
            /\ CallsOf("BatchFlush") = {}
            /\ calls[1].err => Len(calls) = 1)
    /\ [][handler' = "Find" => UNCHANGED <<store, batch, nextUid>>]_vars

\* the case of C28: after an import changed the store, the id lookup of a
\* Find request failed and was not issued again
C28_Witness ==
    /\ FindServed
    /\ store # InitStore
    /\ calls[1].err
    /\ Len(calls) = 1
    /\ ClientStatus(w) = StatusInternalServerError

\* an import was answered with the internal error
ImportFailed ==
    /\ pc = "done"
    /\ handler = "Import"
    /\ ClientStatus(w) = StatusInternalServerError

\* C29: an import that ends with an internal error contributes nothing to
\* the store: the edges it gave to the batch before the failure are not
\* left pending, and no later flush makes an entity or a part of an entity
\* of the failed request visible (every stored node holds all its edges).
C29_FailedImportLeavesNothing ==
    /\ ImportFailed => batch = <<>>
    /\ \A u \in DOMAIN store : store[u].preds = Range(EdgeNames)

\* the ring GetCitiesAround builds from the box
BoxRing == bndBoxOf(box[1], box[2], box[3], box[4])[1]

\* C30: for every valid center and every dist > 0 the ring sent to the
\* store is a well-formed rectangle, minLat <= maxLat and minLon <= maxLon,
\* and the center's own coordinates lie inside it (so that the reference
\* entity is in the collection), also when the circle crosses the
\* antimeridian.
C30_RingHoldsCenter ==
    (BoxComputed /\ boxArgs[3] > 0) =>
        /\ box[1] <= box[3]
        /\ box[2] <= box[4]
        /\ BoxRing[1][1] <= boxArgs[1] /\ boxArgs[1] <= BoxRing[2][1]
        /\ BoxRing[1][2] <= boxArgs[2] /\ boxArgs[2] <= BoxRing[3][2]

=============================================================================
